---- MODULE Spec2Model ----
(***************************************************************************)
(* Model of the on-chain surveillance pipeline of src/server.js (the       *)
(* "BLOCKCHAIN EDITION" half of the file, lines 300-713): start-up,        *)
(* the waitForNextBlock interval, the periodic processBlockchainEvents     *)
(* ticks, checkWalletAge, the market gate, the notifier and the bounded    *)
(* alertedTrades set.                                                      *)
(*                                                                         *)
(* JavaScript runs one callback at a time, so every action below is one    *)
(* synchronous run of code: from the resumption of an await (or the firing *)
(* of a timer) to the next await or the end of the function.  How long an  *)
(* await takes is decided by the network, so any enabled resumption or     *)
(* timer may come next.                                                    *)
(***************************************************************************)
EXTENDS Integers, Sequences, FiniteSets, TLC

----------------------------------------------------------------------------
(* Bounds of the model.  With NumSlots = 2 two invocations of              *)
(* processBlockchainEvents overlap, and a third one reuses the place of    *)
(* one that has ended.  With MaxWaiters = 1 a waitForNextBlock callback    *)
(* fires only after the previous one has settled, so lines 695-702 run     *)
(* once; with 2 the callbacks overlap as well.                             *)

InitHeight == 0        \* chain height when the process starts
MaxHeight == 4         \* the chain stops growing at this height
NumSlots == 2          \* invocations of processBlockchainEvents in flight
MaxWaiters == 1        \* waitForNextBlock callbacks awaiting getBlockNumber
MaxStamp == 3          \* cached first-seen timestamps of checkWalletAge alone
MaxElapsed == 4        \* time from the cached timestamp to the first call
MaxDelta == 5          \* time between the two calls
MarkSteps == 8         \* the window of the balance search, in equal parts

(* Program constants.  MAX_STORED_ALERTS (5000 in the source) and the      *)
(* chunk cap maxBlockRange (50) are scaled down so that eviction and       *)
(* chunking happen within the bounds; the look-back window of the balance  *)
(* search keeps its value, and caps the search of checkWalletAge alone;    *)
(* DAY_MS (1000*60*60*24) is scaled to 2 time units, so one unit of time   *)
(* is half a day and Math.floor of the division is not the identity.       *)
(* MIN_BET_AMOUNT is the configured value (process.env.MIN_BET_AMOUNT),    *)
(* here 1000, so that amounts in units of 10^-6 USDC fit TLC's integers.   *)

MAX_STORED_ALERTS == 2
maxBlockRange == 2
LOOKBACK_BLOCKS == 10000
PROBES == 5
TX_COUNT_THRESHOLD == 10
MIN_BET_AMOUNT == 1000
NEW_ACCOUNT_DAYS == 7
DAY_MS == 2
USDC_DECIMALS == 6
AMOUNT_BUCKET == 100
SUFFIX_LEN == 8

(* The instants Date.now() can return, in units of half a day: two        *)
(* instants of day 0 and one of day 8 (past the 7-day threshold of an     *)
(* address first seen at instant 0, not of one first seen at instant 1).  *)
TimePoints == {0, 1, 16}

----------------------------------------------------------------------------
(* Fill events.  ok = FALSE is a log whose args cannot be destructured.    *)

Makers == {"0xAb"}

EvA1 == [ok |-> TRUE, maker |-> "0xAb", asset |-> 100000001, filled |-> 1000000000]
EvA2 == [ok |-> TRUE, maker |-> "0xAb", asset |-> 200000001, filled |-> 1050500000]
EvB == [ok |-> TRUE, maker |-> "0xAb", asset |-> 7, filled |-> 1100000000]
EvSmall == [ok |-> TRUE, maker |-> "0xAb", asset |-> 100000001, filled |-> 999999999]
EvBad == [ok |-> FALSE, maker |-> "0xAb", asset |-> 0, filled |-> 0]

EventPool == {EvA1, EvA2, EvB, EvSmall, EvBad}

(* The chain of the model.  A block mined after monitoring has started    *)
(* holds one of a few lists of fill events, by its distance from the      *)
(* start-up height; blocks up to InitHeight + 3 carry the timestamp 0,     *)
(* later ones the timestamp 1.                                             *)
LogChoices(d) ==
  CASE d = 3 -> {<<EvSmall, EvA1>>}
    [] d = 4 -> {<<EvBad, EvB, EvA2>>}
    [] OTHER -> {<<>>}

----------------------------------------------------------------------------
(* Pure functions of the pipeline *)

Min(a, b) == IF a <= b THEN a ELSE b

RECURSIVE Pow10(_)
Pow10(n) == IF n = 0 THEN 1 ELSE 10 * Pow10(n - 1)

RECURSIVE NumDigits(_)
NumDigits(a) == IF a < 10 THEN 1 ELSE 1 + NumDigits(a \div 10)

\* maker.toLowerCase()
toLowerCase(m) ==
  CASE m = "0xAb" -> "0xab"
    [] m = "0xCd" -> "0xcd"
    [] OTHER -> m

\* makerAssetId.toString().slice(-8): the last 8 decimal digits as a string,
\* or the whole string when it is shorter; a string is its length and value.
AssetSuffix(asset) ==
  <<Min(NumDigits(asset), SUFFIX_LEN), asset % Pow10(SUFFIX_LEN)>>

\* A faulty amount filter that compares the raw amount, not the USDC amount
BelowMinimumRawUnits(filled) == filled < MIN_BET_AMOUNT

\* tradeAmount < CONFIG.MIN_BET_AMOUNT, with tradeAmount = filled / 10^6
BelowMinimum(filled) == filled < MIN_BET_AMOUNT * Pow10(USDC_DECIMALS)

\* Math.floor(tradeAmount / 100) * 100
roundedAmount(filled) ==
  (filled \div (AMOUNT_BUCKET * Pow10(USDC_DECIMALS))) * AMOUNT_BUCKET

\* new Date().toISOString().split('T')[0]: the calendar day of an instant
today(now_) == now_ \div DAY_MS

alertKey(ev, now_) ==
  <<toLowerCase(ev.maker), roundedAmount(ev.filled), AssetSuffix(ev.asset), today(now_)>>

\* Membership in a JavaScript Set kept as its insertion-ordered sequence
Has(seq, k) == \E i \in 1..Len(seq) : seq[i] = k

\* alertedTrades.add(alertKey): an absent key goes last, a present one stays
SetAdd(alerted, k) == IF Has(alerted, k) THEN alerted ELSE Append(alerted, k)

\* A faulty age with the operands of the subtraction exchanged
ageInDaysBackwards(now_, firstSeen) == (firstSeen - now_) \div DAY_MS

\* Math.floor((Date.now() - firstSeenTime) / (1000 * 60 * 60 * 24))
ageInDays(now_, firstSeen) == (now_ - firstSeen) \div DAY_MS

isNewAge(age) == age <= NEW_ACCOUNT_DAYS

\* checkWalletAge for a cached address, lines 370-378
description(age) == IF age = 0 THEN "brandNew" ELSE "daysOld"

cachedInfo(firstSeenTime, t) ==
  [isNew |-> isNewAge(ageInDays(t, firstSeenTime)),
   ageInDays |-> ageInDays(t, firstSeenTime),
   description |-> description(ageInDays(t, firstSeenTime))]

\* A faulty eviction that never deletes
EvictNever(alerted) == alerted

\* A faulty eviction that deletes the key inserted last instead of the first
EvictNewest(alerted) ==
  IF Len(alerted) > MAX_STORED_ALERTS
  THEN SubSeq(alerted, 1, Len(alerted) - 1) ELSE alerted

\* if (size > MAX_STORED_ALERTS) delete(values().next().value)
EvictIfOver(alerted) ==
  IF Len(alerted) > MAX_STORED_ALERTS THEN Tail(alerted) ELSE alerted

\* lines 637-643
MarkAlerted(alerted, k) == EvictIfOver(SetAdd(alerted, k))

\* Math.min(10000, currentBlock)
blocksToSearch(currentBlock) == Min(LOOKBACK_BLOCKS, currentBlock)

\* Math.floor((currentBlock - blocksToSearch + firstTxBlock) / 2)
midBlock(currentBlock, firstTxBlock) ==
  (currentBlock - blocksToSearch(currentBlock) + firstTxBlock) \div 2

\* A faulty start of range that takes the cursor block again
FromBlockAtCursor(lpb) == lpb

\* the fromBlock of line 569: lastProcessedBlock + 1
FromBlock(lpb) == lpb + 1

\* A faulty end of range that forgets the chain height
ToBlockBeyondHeight(currentBlock, lpb) == lpb + maxBlockRange

\* Math.min(currentBlock, lastProcessedBlock + maxBlockRange)
ToBlock(currentBlock, lpb) == Min(currentBlock, lpb + maxBlockRange)

----------------------------------------------------------------------------
(* State *)

VARIABLES
  height,              \* the chain: current block number
  logs,                \* the chain: the OrderFilled logs of each block
  now,                 \* Date.now()
  webhook,             \* CONFIG.DISCORD_WEBHOOK: "set", "empty", or "unread"
  main,                \* position of the app.listen callback
  startBlock,          \* its local startBlock
  waitTimer,           \* the waitForNextBlock interval is active
  waiters,             \* waitForNextBlock callbacks awaiting getBlockNumber
  scanTimers,          \* setInterval(processBlockchainEvents) timers created
  lastProcessedBlock,
  alertedTrades,       \* the Set, as the sequence of its keys in insertion order
  walletFirstSeen,     \* the Map, NoTime for an absent address
  ticks,               \* the invocations of processBlockchainEvents
  emitted,             \* history: the alert keys handed to sendDiscordAlert
  scanned,             \* history: the blocks covered by a successful queryFilter
  lastFail,            \* history: fromBlock of a failed fetch not yet retried
  monitoringFrom,      \* history: the height at which monitoring started
                       \* (line 696), 0 before it has started
  calc                 \* the arguments and results of a function of the program
                       \* applied on its own (see the end of the module)

programVars == <<height, logs, now, webhook, main, startBlock, waitTimer,
                 waiters, scanTimers, lastProcessedBlock, alertedTrades,
                 walletFirstSeen, ticks, emitted, scanned, lastFail,
                 monitoringFrom>>

vars == <<programVars, calc>>

chainVars == <<height, logs, now>>
bootVars == <<webhook, main, startBlock, waitTimer, waiters, scanTimers>>

NoTime == -1
NoCalc == [fn |-> "none"]
NoKey == <<"", 0, <<0, 0>>, 0>>
Slots == 1..NumSlots
Blocks == 1..MaxHeight

\* An invocation of processBlockchainEvents and of the checkWalletAge call it
\* awaits: pc is the await it is suspended at; from and to are the arguments
\* of the pending queryFilter; evs the events of the chunk not yet dealt
\* with (the first is the one in hand), key its alertKey, age and desc the
\* ageInDays and description of the walletInfo returned for it; cur and
\* first the currentBlock and firstTxBlock of the running checkWalletAge.
\* Locals that are out of scope are 0.  expect is history: the fromBlock of
\* the failed fetch that this invocation is the first to follow, kept until
\* the invocation has read the chain height.  market is the answer of the
\* market lookup for the event in hand, "" before the lookup.
Idle == [pc |-> "idle", from |-> 0, to |-> 0, evs |-> <<>>, key |-> NoKey,
         age |-> 0, desc |-> "", cur |-> 0, first |-> 0, expect |-> 0,
         market |-> ""]

InFlight == {s \in Slots : ticks[s].pc # "idle"}

FreeSlot == CHOOSE s \in Slots : ticks[s].pc = "idle" /\ \A r \in Slots : r < s => ticks[r].pc # "idle"

\* the process is started at the instant t
ProgramInitAt(t) ==
  /\ height = InitHeight
  /\ logs = [b \in Blocks |-> <<>>]
  /\ now = t
  /\ webhook = "unread"
  /\ main = "initBlockchain"
  /\ startBlock = 0
  /\ waitTimer = FALSE
  /\ waiters = 0
  /\ scanTimers = 0
  /\ lastProcessedBlock = 0
  /\ alertedTrades = <<>>
  /\ walletFirstSeen = [m \in Makers |-> NoTime]
  /\ ticks = [s \in Slots |-> Idle]
  /\ emitted = {}
  /\ scanned = {}
  /\ lastFail = 0
  /\ monitoringFrom = 0

ProgramInit == ProgramInitAt(0)

Init == ProgramInit /\ calc = NoCalc

----------------------------------------------------------------------------
(* The environment: the chain grows and time passes *)

\* block.timestamp * 1000 of the block b
blockTimestamp(b) == IF b <= InitHeight + 3 THEN 0 ELSE 1

\* A block is mined, not before its timestamp.  Blocks mined before
\* monitoring starts are never queried for logs, so only later ones are
\* given fill events.
Mine ==
  /\ main = "running"
  /\ height < MaxHeight
  /\ blockTimestamp(height + 1) <= now
  /\ height' = height + 1
  /\ \E l \in LogChoices(height + 1 - InitHeight) :
       /\ (scanTimers = 0 => l = <<>>)
       /\ logs' = [logs EXCEPT ![height + 1] = l]
  /\ UNCHANGED <<calc, monitoringFrom, now, bootVars, lastProcessedBlock, alertedTrades,
                 walletFirstSeen, ticks, emitted, scanned, lastFail>>

AdvanceTime ==
  /\ main = "running"
  /\ \E t \in TimePoints : t > now /\ now' = t
  /\ UNCHANGED <<calc, monitoringFrom, height, logs, bootVars, lastProcessedBlock,
                 alertedTrades, walletFirstSeen, ticks, emitted, scanned,
                 lastFail>>

----------------------------------------------------------------------------
(* Start-up: initBlockchain and the app.listen callback (lines 347-362,    *)
(* 680-708)                                                                *)

\* processBlockchainEvents() is called: it runs up to its first await, the
\* getBlockNumber of line 552
NewTick == [Idle EXCEPT !.pc = "getBlockNumber", !.expect = lastFail]

\* initBlockchain: getBlockNumber resolves (line 352)
InitOk ==
  /\ main = "initBlockchain"
  /\ lastProcessedBlock' = height
  /\ main' = "startBlock"
  /\ UNCHANGED <<calc, monitoringFrom, chainVars, webhook, startBlock, waitTimer, waiters, scanTimers,
                 alertedTrades, walletFirstSeen, ticks, emitted, scanned, lastFail>>

\* initBlockchain: getBlockNumber rejects, caught at line 358; line 706
InitFail ==
  /\ main = "initBlockchain"
  /\ main' = "failed"
  /\ UNCHANGED <<calc, monitoringFrom, chainVars, webhook, startBlock, waitTimer, waiters, scanTimers,
                 lastProcessedBlock, alertedTrades, walletFirstSeen, ticks,
                 emitted, scanned, lastFail>>

\* line 690 resolves; the waitForNextBlock interval is created (line 692)
StartBlockOk ==
  /\ main = "startBlock"
  /\ startBlock' = height
  /\ waitTimer' = TRUE
  /\ main' = "running"
  /\ UNCHANGED <<calc, monitoringFrom, chainVars, webhook, waiters, scanTimers, lastProcessedBlock,
                 alertedTrades, walletFirstSeen, ticks, emitted, scanned, lastFail>>

\* line 690 rejects: nothing catches it and no timer is ever created
StartBlockFail ==
  /\ main = "startBlock"
  /\ main' = "rejected"
  /\ UNCHANGED <<calc, monitoringFrom, chainVars, webhook, startBlock, waitTimer, waiters, scanTimers,
                 lastProcessedBlock, alertedTrades, walletFirstSeen, ticks,
                 emitted, scanned, lastFail>>

\* the 3-second interval fires: the callback runs to its await (line 693)
WaitFireUpTo(n) ==
  /\ main = "running"
  /\ waitTimer
  /\ waiters < n
  /\ waiters' = waiters + 1
  /\ UNCHANGED <<calc, monitoringFrom, chainVars, webhook, main, startBlock, waitTimer, scanTimers,
                 lastProcessedBlock, alertedTrades, walletFirstSeen, ticks,
                 emitted, scanned, lastFail>>

WaitFire == WaitFireUpTo(MaxWaiters)

\* ... also while the getBlockNumber of an earlier callback is pending
WaitFireOverlapping == WaitFireUpTo(MaxWaiters + 1)

\* a callback's getBlockNumber resolves with a new block: lines 695-702
WaitOkStart ==
  /\ main = "running"
  /\ waiters > 0
  /\ height > startBlock
  /\ InFlight # Slots
  /\ waiters' = waiters - 1
  /\ waitTimer' = FALSE
  /\ lastProcessedBlock' = height
  /\ ticks' = [ticks EXCEPT ![FreeSlot] = NewTick]
  /\ lastFail' = 0
  /\ scanTimers' = scanTimers + 1
  /\ monitoringFrom' = IF scanTimers = 0 THEN height ELSE monitoringFrom
  /\ UNCHANGED <<calc, chainVars, webhook, main, startBlock, alertedTrades,
                 walletFirstSeen, emitted, scanned>>

\* a callback's getBlockNumber resolves with no new block (line 694 false)
WaitOkSame ==
  /\ main = "running"
  /\ waiters > 0
  /\ ~(height > startBlock)
  /\ waiters' = waiters - 1
  /\ UNCHANGED <<calc, monitoringFrom, chainVars, webhook, main, startBlock, waitTimer, scanTimers,
                 lastProcessedBlock, alertedTrades, walletFirstSeen, ticks,
                 emitted, scanned, lastFail>>

\* a callback's getBlockNumber rejects: the rejection is unhandled, which
\* is only reported or ends the process, depending on the runtime; when the
\* process ends, its timers and suspended invocations are gone
WaitFail ==
  /\ main = "running"
  /\ waiters > 0
  /\ \/ /\ waiters' = waiters - 1
        /\ UNCHANGED <<main, waitTimer, scanTimers, ticks>>
     \/ /\ main' = "crashed"
        /\ waiters' = 0
        /\ waitTimer' = FALSE
        /\ scanTimers' = 0
        /\ ticks' = [s \in Slots |-> Idle]
  /\ UNCHANGED <<calc, monitoringFrom, chainVars, webhook, startBlock, lastProcessedBlock,
                 alertedTrades, walletFirstSeen, emitted, scanned, lastFail>>

\* a scan timer created at line 702 fires: setInterval does not wait for
\* the promise of the previous invocation
ScanTimerFire ==
  /\ main = "running"
  /\ scanTimers > 0
  /\ InFlight # Slots
  /\ ticks' = [ticks EXCEPT ![FreeSlot] = NewTick]
  /\ lastFail' = 0
  /\ UNCHANGED <<calc, monitoringFrom, chainVars, bootVars, lastProcessedBlock, alertedTrades,
                 walletFirstSeen, emitted, scanned>>

----------------------------------------------------------------------------
(* processBlockchainEvents (lines 550-658)                                 *)

RECURSIVE LogsIn(_, _, _)
\* queryFilter(filter, from, to): the logs of the blocks from..to, in order
LogsIn(lg, from, to) ==
  IF from > to THEN <<>>
  ELSE lg[from] \o LogsIn(lg, from + 1, to)

RECURSIVE SkipTo(_, _, _, _)
\* The synchronous part of the event loop, lines 575-606: the events that
\* are dropped without an await (args that cannot be destructured: catch at
\* line 647; amount below the minimum; key already alerted; cached wallet
\* that is not new) are passed over.  The result is the rest of the chunk
\* from the first event that reaches an await, or <<>>.
SkipTo(evs, alerted, wfs, t) ==
  IF evs = <<>> THEN <<>>
  ELSE LET e == Head(evs) IN
       IF \/ ~e.ok
          \/ BelowMinimum(e.filled)
          \/ Has(alerted, alertKey(e, t))
          \/ /\ wfs[e.maker] # NoTime
             /\ ~cachedInfo(wfs[e.maker], t).isNew
       THEN SkipTo(Tail(evs), alerted, wfs, t)
       ELSE evs

\* The invocation tk goes on with the events evs: it stops at the next
\* await (getTransactionCount of line 381 for an address that is not cached,
\* the market lookup of line 612 for a cached new one) or ends.
LoopFrom(tk, evs, alerted, wfs, t) ==
  LET r == SkipTo(evs, alerted, wfs, t) IN
  IF r = <<>> THEN Idle
  ELSE LET m == Head(r).maker IN
       [Idle EXCEPT !.to = tk.to,
                    !.evs = r,
                    !.key = alertKey(Head(r), t),
                    !.age = IF wfs[m] = NoTime THEN 0
                            ELSE cachedInfo(wfs[m], t).ageInDays,
                    !.desc = IF wfs[m] = NoTime THEN ""
                             ELSE cachedInfo(wfs[m], t).description,
                    !.pc = IF wfs[m] = NoTime
                           THEN "getTransactionCount" ELSE "getMarket"]

\* ... and line 652 when the loop has ended
Proceed(s, evs, wfs) ==
  LET nt == LoopFrom(ticks[s], evs, alertedTrades, wfs, now) IN
  /\ ticks' = [ticks EXCEPT ![s] = nt]
  /\ lastProcessedBlock' =
       IF nt.pc = "idle" THEN ticks[s].to ELSE lastProcessedBlock

\* line 552 resolves; lines 554-571
BlockNumberOk(s) ==
  /\ main = "running"
  /\ ticks[s].pc = "getBlockNumber"
  /\ LET currentBlock == height IN
     IF currentBlock <= lastProcessedBlock
     THEN /\ ticks' = [ticks EXCEPT ![s] = Idle]
     ELSE /\ ticks' = [ticks EXCEPT ![s].pc = "queryFilter",
                                    ![s].from = FromBlock(lastProcessedBlock),
                                    ![s].to = ToBlock(currentBlock, lastProcessedBlock),
                                    ![s].expect = 0]
  /\ UNCHANGED <<calc, monitoringFrom, chainVars, bootVars, lastProcessedBlock, alertedTrades,
                 walletFirstSeen, emitted, scanned, lastFail>>

\* line 552 rejects: caught at line 655
BlockNumberFail(s) ==
  /\ main = "running"
  /\ ticks[s].pc = "getBlockNumber"
  /\ ticks' = [ticks EXCEPT ![s] = Idle]
  /\ lastFail' = lastProcessedBlock + 1
  /\ UNCHANGED <<calc, monitoringFrom, chainVars, bootVars, lastProcessedBlock, alertedTrades,
                 walletFirstSeen, emitted, scanned>>

\* line 567 resolves; the loop runs to its first await or to line 652
QueryOk(s) ==
  /\ main = "running"
  /\ ticks[s].pc = "queryFilter"
  /\ scanned' = scanned \cup (ticks[s].from .. ticks[s].to)
  /\ Proceed(s, LogsIn(logs, ticks[s].from, ticks[s].to), walletFirstSeen)
  /\ UNCHANGED <<calc, monitoringFrom, chainVars, bootVars, alertedTrades, walletFirstSeen,
                 emitted, lastFail>>

\* line 567 rejects: caught at line 655
QueryFail(s) ==
  /\ main = "running"
  /\ ticks[s].pc = "queryFilter"
  /\ ticks' = [ticks EXCEPT ![s] = Idle]
  /\ lastFail' = ticks[s].from
  /\ UNCHANGED <<calc, monitoringFrom, chainVars, bootVars, lastProcessedBlock, alertedTrades,
                 walletFirstSeen, emitted, scanned>>

----------------------------------------------------------------------------
(* checkWalletAge for an address without a cached record (lines 380-440),  *)
(* awaited at line 601                                                     *)

TxCounts == {2, TX_COUNT_THRESHOLD, TX_COUNT_THRESHOLD + 1}

\* A faulty threshold that takes a count of exactly 10 as established
usesSearchBelowThreshold(txCount) == txCount < TX_COUNT_THRESHOLD

\* txCount <= 10
usesSearch(txCount) == txCount <= TX_COUNT_THRESHOLD

\* lines 426-430
establishedInfo ==
  [isNew |-> FALSE, ageInDays |-> 999, description |-> "established"]

\* lines 417-421: the catch around the search
lowTxCountInfo ==
  [isNew |-> TRUE, ageInDays |-> 0, description |-> "lowTxCount"]

\* A faulty outer catch that fails closed
unknownAgeClosed ==
  [isNew |-> FALSE, ageInDays |-> 0, description |-> "unknownAge"]

\* lines 435-439: the catch around the whole function
unknownAgeInfo ==
  [isNew |-> TRUE, ageInDays |-> 0, description |-> "unknownAge"]

\* lines 403-414
searchedInfo(firstSeenTimestamp, t) ==
  [isNew |-> isNewAge(ageInDays(t, firstSeenTimestamp)),
   ageInDays |-> ageInDays(t, firstSeenTimestamp),
   description |-> description(ageInDays(t, firstSeenTimestamp))]

\* checkWalletAge returns info to line 601; lines 603-612: a wallet that is
\* not new ends the event, a new one goes on to the market lookup
Returned(s, info, wfs) ==
  IF info.isNew
  THEN /\ ticks' = [ticks EXCEPT ![s].pc = "getMarket",
                                 ![s].age = info.ageInDays,
                                 ![s].desc = info.description,
                                 ![s].cur = 0,
                                 ![s].first = 0]
       /\ UNCHANGED lastProcessedBlock
  ELSE Proceed(s, Tail(ticks[s].evs), wfs)

\* line 381 resolves
TxCountOk(s) ==
  /\ main = "running"
  /\ ticks[s].pc = "getTransactionCount"
  /\ \E txCount \in TxCounts :
       IF usesSearch(txCount)
       THEN /\ ticks' = [ticks EXCEPT ![s].pc = "getHeight"]
            /\ UNCHANGED lastProcessedBlock
       ELSE Returned(s, establishedInfo, walletFirstSeen)
  /\ UNCHANGED <<calc, monitoringFrom, chainVars, bootVars, alertedTrades, walletFirstSeen,
                 emitted, scanned, lastFail>>

\* a query of checkWalletAge rejects and a catch block returns info
FailOpen(s, info) ==
  /\ Returned(s, info, walletFirstSeen)
  /\ UNCHANGED <<calc, monitoringFrom, chainVars, bootVars, alertedTrades, walletFirstSeen,
                 emitted, scanned, lastFail>>

\* line 381 rejects: caught at line 432
TxCountFail(s) ==
  /\ main = "running"
  /\ ticks[s].pc = "getTransactionCount"
  /\ FailOpen(s, unknownAgeInfo)

\* line 388 resolves; lines 389-396: the first probe is sent
WalletHeightOk(s) ==
  /\ main = "running"
  /\ ticks[s].pc = "getHeight"
  /\ ticks' = [ticks EXCEPT ![s].pc = "getBalance",
                            ![s].cur = height,
                            ![s].first = height]
  /\ UNCHANGED <<calc, monitoringFrom, chainVars, bootVars, lastProcessedBlock, alertedTrades,
                 walletFirstSeen, emitted, scanned, lastFail>>

\* line 388 rejects: caught at line 415
WalletHeightFail(s) ==
  /\ main = "running"
  /\ ticks[s].pc = "getHeight"
  /\ FailOpen(s, lowTxCountInfo)

\* A faulty probe that moves to midBlock whatever the balance
probeIgnoringBalance(currentBlock, firstTxBlock, positive) ==
  midBlock(currentBlock, firstTxBlock)

\* lines 395-399: one probe, given whether the balance at midBlock is > 0
probe(currentBlock, firstTxBlock, positive) ==
  IF positive THEN midBlock(currentBlock, firstTxBlock) ELSE firstTxBlock

RECURSIVE search(_, _, _)
\* lines 394-400: the probes, given the answers of getBalance in order
search(currentBlock, firstTxBlock, answers) ==
  IF answers = <<>> THEN firstTxBlock
  ELSE search(currentBlock, probe(currentBlock, firstTxBlock, Head(answers)),
              Tail(answers))

\* The getBalance calls of line 396 all resolve; getBlock is sent (line
\* 402).  The probes read and write only locals of this call, so the
\* PROBES resumptions are taken in one step.
BalanceOk(s) ==
  /\ main = "running"
  /\ ticks[s].pc = "getBalance"
  /\ \E answers \in [1..PROBES -> BOOLEAN] :
       ticks' = [ticks EXCEPT
           ![s].first = search(ticks[s].cur, ticks[s].first, answers),
           ![s].cur = 0,
           ![s].pc = "getBlock"]
  /\ UNCHANGED <<calc, monitoringFrom, chainVars, bootVars, lastProcessedBlock, alertedTrades,
                 walletFirstSeen, emitted, scanned, lastFail>>

\* one of the getBalance calls of line 396 rejects: caught at line 415
BalanceFail(s) ==
  /\ main = "running"
  /\ ticks[s].pc = "getBalance"
  /\ FailOpen(s, lowTxCountInfo)

\* line 402 resolves with the block: lines 403-414, then line 603
GetBlockOk(s) ==
  /\ main = "running"
  /\ ticks[s].pc = "getBlock"
  /\ LET tk == ticks[s]
         firstSeenTimestamp == blockTimestamp(tk.first)
         wfs == [walletFirstSeen EXCEPT ![Head(tk.evs).maker] = firstSeenTimestamp]
     IN /\ walletFirstSeen' = wfs
        /\ Returned(s, searchedInfo(firstSeenTimestamp, now), wfs)
  /\ UNCHANGED <<calc, monitoringFrom, chainVars, bootVars, alertedTrades, emitted, scanned, lastFail>>

\* line 402 rejects, or resolves with null so that line 403 throws:
\* caught at line 415
GetBlockFail(s) ==
  /\ main = "running"
  /\ ticks[s].pc = "getBlock"
  /\ FailOpen(s, lowTxCountInfo)

----------------------------------------------------------------------------
(* Market gate, notifier and alert state (lines 610-646)                   *)

MarketAnswers == {"none", "closed", "inactive", "open"}

\* A faulty market gate that lets an inactive market through
marketRejectedUnlessInactive(m) == m = "none" \/ m = "closed"

\* !market, or market.closed === true || market.active === false
marketRejected(m) == m = "none" \/ m = "closed" \/ m = "inactive"

\* lines 637-646: the key is marked and the 2-second delay starts
MarkAndDelay(s, m) ==
  /\ ticks' = [ticks EXCEPT ![s].pc = "delay", ![s].age = 0, ![s].desc = "",
                            ![s].market = m]
  /\ alertedTrades' = MarkAlerted(alertedTrades, ticks[s].key)
  /\ UNCHANGED lastProcessedBlock

\* CONFIG.DISCORD_WEBHOOK is fixed when the process starts and first read
\* by the pipeline at line 482: its value is drawn at that first read.
WebhookRead == IF webhook = "unread" THEN {"set", "empty"} ELSE {webhook}

\* line 612 resolves (getMarketByConditionId turns an error into null);
\* lines 615-634: sendDiscordAlert is called and either returns at line 483
\* (then lines 637-646) or awaits the post of line 537
MarketAnswer(s) ==
  /\ main = "running"
  /\ ticks[s].pc = "getMarket"
  /\ \E m \in MarketAnswers :
       IF marketRejected(m)
       THEN /\ Proceed(s, Tail(ticks[s].evs), walletFirstSeen)
            /\ UNCHANGED <<alertedTrades, emitted, webhook>>
       ELSE /\ emitted' = emitted \cup {ticks[s].key}
            /\ \E w \in WebhookRead :
                 /\ webhook' = w
                 /\ IF w = "set"
                    THEN /\ ticks' = [ticks EXCEPT ![s].pc = "post",
                                                   ![s].age = 0,
                                                   ![s].desc = "",
                                                   ![s].market = m]
                         /\ UNCHANGED <<alertedTrades, lastProcessedBlock>>
                    ELSE MarkAndDelay(s, m)
  /\ UNCHANGED <<calc, monitoringFrom, chainVars, main, startBlock, waitTimer, waiters, scanTimers,
                 walletFirstSeen, scanned, lastFail>>

\* A faulty notifier without the try/catch of lines 536-544
postThrowsOnFailure(outcome) == outcome = "failed"

\* whether a rejected post leaves sendDiscordAlert as an exception: it does
\* not, line 542 catches it
postThrows(outcome) == FALSE

\* the post of line 537 resolves or rejects; sendDiscordAlert returns
PostDone(s) ==
  /\ main = "running"
  /\ ticks[s].pc = "post"
  /\ \E outcome \in {"sent", "failed"} :
       IF postThrows(outcome)
       THEN \* the catch of line 647: next event
            /\ Proceed(s, Tail(ticks[s].evs), walletFirstSeen)
            /\ UNCHANGED alertedTrades
       ELSE MarkAndDelay(s, ticks[s].market)
  /\ UNCHANGED <<calc, monitoringFrom, chainVars, bootVars, walletFirstSeen, emitted, scanned, lastFail>>

\* the 2-second delay of line 646 ends: next event, or line 652
DelayDone(s) ==
  /\ main = "running"
  /\ ticks[s].pc = "delay"
  /\ Proceed(s, Tail(ticks[s].evs), walletFirstSeen)
  /\ UNCHANGED <<calc, monitoringFrom, chainVars, bootVars, alertedTrades, walletFirstSeen,
                 emitted, scanned, lastFail>>

----------------------------------------------------------------------------

Next ==
  \/ Mine
  \/ AdvanceTime
  \/ InitOk
  \/ InitFail
  \/ StartBlockOk
  \/ StartBlockFail
  \/ WaitFire
  \/ WaitOkStart
  \/ WaitOkSame
  \/ WaitFail
  \/ ScanTimerFire
  \/ \E s \in Slots :
       \/ BlockNumberOk(s)
       \/ BlockNumberFail(s)
       \/ QueryOk(s)
       \/ QueryFail(s)
       \/ TxCountOk(s)
       \/ TxCountFail(s)
       \/ WalletHeightOk(s)
       \/ WalletHeightFail(s)
       \/ BalanceOk(s)
       \/ BalanceFail(s)
       \/ GetBlockOk(s)
       \/ GetBlockFail(s)
       \/ MarketAnswer(s)
       \/ PostDone(s)
       \/ DelayDone(s)

Spec == Init /\ [][Next]_vars

----------------------------------------------------------------------------
(* Progress.  Every promise an invocation awaits settles (a chain query,  *)
(* the market lookup and the post resolve or reject, the delay timer       *)
(* fires), so an invocation that can take a step eventually takes one.     *)
(* The progress of an invocation does not depend on the clock: it stands   *)
(* at the last instant, when every block of the model can be mined.  The   *)
(* 3-second interval may fire again while the getBlockNumber of an earlier *)
(* callback is still pending.                                              *)

\* the invocation in slot s is resumed
TickStep(s) ==
  \/ BlockNumberOk(s)
  \/ BlockNumberFail(s)
  \/ QueryOk(s)
  \/ QueryFail(s)
  \/ TxCountOk(s)
  \/ TxCountFail(s)
  \/ WalletHeightOk(s)
  \/ WalletHeightFail(s)
  \/ BalanceOk(s)
  \/ BalanceFail(s)
  \/ GetBlockOk(s)
  \/ GetBlockFail(s)
  \/ MarketAnswer(s)
  \/ PostDone(s)
  \/ DelayDone(s)

LastInstant == CHOOSE t \in TimePoints : \A u \in TimePoints : u <= t

InitFair == ProgramInitAt(LastInstant) /\ calc = NoCalc

NextFair ==
  \/ Mine
  \/ InitOk
  \/ InitFail
  \/ StartBlockOk
  \/ StartBlockFail
  \/ WaitFireOverlapping
  \/ WaitOkStart
  \/ WaitOkSame
  \/ WaitFail
  \/ ScanTimerFire
  \/ \E s \in Slots : TickStep(s)

Fairness == \A s \in Slots : WF_vars(TickStep(s))

SpecFair == InitFair /\ [][NextFair]_vars /\ Fairness

----------------------------------------------------------------------------
(* checkWalletAge for an address without a cached record on its own        *)
(* (lines 380-440).  The chain gives the address a transaction count and   *)
(* a nonzero balance at the blocks funded.from .. funded.upto; currentBlock *)
(* is the height that line 388 returns.  queries lists the chain queries   *)
(* issued, probes the midBlock of each getBalance with the firstTxBlock    *)
(* (the upper end of the interval) it was computed from.                   *)

NoBlock == -1

WalletHeights == {0, 1, 6, 9999, 10000, 10001, 25000}

\* blocks of the searched window of currentBlock, the block 0 and a block
\* not yet mined
FundedMarks(currentBlock) ==
  LET window == Min(LOOKBACK_BLOCKS, currentBlock)
  IN {currentBlock - window + (window * k) \div MarkSteps : k \in 0..MarkSteps}
       \cup {0, currentBlock + 1}

WalletInputs ==
  {[fn |-> "checkWalletAge", txCount |-> c, currentBlock |-> cb,
    funded |-> [from |-> f, upto |-> u], pc |-> "getTransactionCount",
    queries |-> <<"getTransactionCount">>, probes |-> <<>>,
    firstTxBlock |-> NoBlock, cached |-> NoBlock, info |-> [description |-> ""]] :
     c \in TxCounts, cb \in WalletHeights,
     f \in UNION {FundedMarks(h) : h \in WalletHeights},
     u \in UNION {FundedMarks(h) : h \in WalletHeights}}

InitWallet ==
  /\ ProgramInit
  /\ calc \in {w \in WalletInputs :
                 /\ w.funded.from \in FundedMarks(w.currentBlock)
                 /\ w.funded.upto \in FundedMarks(w.currentBlock)
                 /\ w.funded.from <= w.funded.upto}

\* balance > 0 at line 397, for the balance at block b
Funded(b) == calc.funded.from <= b /\ b <= calc.funded.upto

\* the getBalance of line 396 is sent for the interval up to firstTxBlock
SendProbe(c, firstTxBlock) ==
  [c EXCEPT !.firstTxBlock = firstTxBlock,
            !.queries = Append(@, "getBalance"),
            !.probes = Append(@, [mid |-> midBlock(c.currentBlock, firstTxBlock),
                                  upper |-> firstTxBlock]),
            !.pc = "getBalance"]

\* line 381 resolves
WalletTxCount ==
  /\ calc.fn = "checkWalletAge"
  /\ calc.pc = "getTransactionCount"
  /\ calc' = IF usesSearch(calc.txCount)
             THEN [calc EXCEPT !.queries = Append(@, "getBlockNumber"),
                               !.pc = "getBlockNumber"]
             ELSE [calc EXCEPT !.info = establishedInfo, !.pc = "returned"]
  /\ UNCHANGED programVars

\* line 388 resolves; lines 389-396
WalletBlockNumber ==
  /\ calc.fn = "checkWalletAge"
  /\ calc.pc = "getBlockNumber"
  /\ calc' = SendProbe(calc, calc.currentBlock)
  /\ UNCHANGED programVars

\* a getBalance of line 396 resolves; lines 397-402
WalletBalance ==
  /\ calc.fn = "checkWalletAge"
  /\ calc.pc = "getBalance"
  /\ LET mid == calc.probes[Len(calc.probes)].mid
         firstTxBlock == probe(calc.currentBlock, calc.firstTxBlock, Funded(mid))
     IN calc' = IF Len(calc.probes) < PROBES
                THEN SendProbe(calc, firstTxBlock)
                ELSE [calc EXCEPT !.firstTxBlock = firstTxBlock,
                                  !.queries = Append(@, "getBlock"),
                                  !.pc = "getBlock"]
  /\ UNCHANGED programVars

\* line 402 resolves; lines 403-414
WalletGetBlock ==
  /\ calc.fn = "checkWalletAge"
  /\ calc.pc = "getBlock"
  /\ calc' = [calc EXCEPT
                 !.cached = calc.firstTxBlock,
                 !.info = searchedInfo(blockTimestamp(calc.firstTxBlock), now),
                 !.pc = "returned"]
  /\ UNCHANGED programVars

\* the pending query rejects: the catch of line 432 for line 381, of line
\* 415 for the queries of the search
WalletQueryRejects ==
  /\ calc.fn = "checkWalletAge"
  /\ calc.pc \in {"getTransactionCount", "getBlockNumber", "getBalance", "getBlock"}
  /\ calc' = [calc EXCEPT
                 !.info = IF calc.pc = "getTransactionCount"
                          THEN unknownAgeInfo ELSE lowTxCountInfo,
                 !.pc = "returned"]
  /\ UNCHANGED programVars

NextWallet ==
  \/ WalletTxCount
  \/ WalletBlockNumber
  \/ WalletBalance
  \/ WalletGetBlock
  \/ WalletQueryRejects

SpecWallet == InitWallet /\ [][NextWallet]_vars

----------------------------------------------------------------------------
(* Start-up and scanning on a chain without fills.  No fill is emitted,    *)
(* so an invocation ends at line 652 as soon as its queryFilter resolves;  *)
(* in exchange the 3-second interval may fire again while the              *)
(* getBlockNumber of an earlier callback is still pending.                 *)

\* A block without fills is mined
MineQuiet ==
  /\ main = "running"
  /\ height < MaxHeight
  /\ blockTimestamp(height + 1) <= now
  /\ height' = height + 1
  /\ UNCHANGED <<calc, monitoringFrom, logs, now, bootVars, lastProcessedBlock,
                 alertedTrades, walletFirstSeen, ticks, emitted, scanned,
                 lastFail>>

\* the invocation in slot s is resumed
ScanStep(s) ==
  \/ BlockNumberOk(s)
  \/ BlockNumberFail(s)
  \/ QueryOk(s)
  \/ QueryFail(s)

\* a waitForNextBlock callback is resumed with the height
WaitOk == WaitOkStart \/ WaitOkSame

NextBoot ==
  \/ MineQuiet
  \/ InitOk
  \/ InitFail
  \/ StartBlockOk
  \/ StartBlockFail
  \/ WaitFireOverlapping
  \/ WaitOkStart
  \/ WaitOkSame
  \/ WaitFail
  \/ ScanTimerFire
  \/ \E s \in Slots : ScanStep(s)

\* Timers fire and promises settle (weak fairness); a chain query does not
\* fail for ever (strong fairness of its success).
FairnessBoot ==
  /\ WF_vars(WaitFireOverlapping)
  /\ WF_vars(WaitOk \/ WaitFail)
  /\ SF_vars(WaitOk)
  /\ WF_vars(ScanTimerFire)
  /\ \A s \in Slots : WF_vars(ScanStep(s))
  /\ SF_vars(\E s \in Slots : BlockNumberOk(s))
  /\ SF_vars(\E s \in Slots : QueryOk(s))

SpecBoot == InitFair /\ [][NextBoot]_vars /\ FairnessBoot

----------------------------------------------------------------------------
(* checkWalletAge for a cached address on its own (lines 370-378): the     *)
(* address has the cached timestamp firstSeenTime and checkWalletAge is    *)
(* called for it at the instant t and again at the instant t + D.          *)

AgeInputs ==
  {[fn |-> "age", firstSeenTime |-> f, t |-> f + e, D |-> d, results |-> <<>>] :
     f \in 0..MaxStamp, e \in 0..MaxElapsed, d \in 0..MaxDelta}

InitAge == ProgramInit /\ calc \in AgeInputs

\* the call at the instant t returns
AgeFirstCall ==
  /\ calc.fn = "age"
  /\ Len(calc.results) = 0
  /\ calc' = [calc EXCEPT !.results =
                 <<cachedInfo(calc.firstSeenTime, calc.t).ageInDays>>]
  /\ UNCHANGED programVars

\* the call at the instant t + D returns
AgeSecondCall ==
  /\ calc.fn = "age"
  /\ Len(calc.results) = 1
  /\ calc' = [calc EXCEPT !.results =
                 Append(@, cachedInfo(calc.firstSeenTime, calc.t + calc.D).ageInDays)]
  /\ UNCHANGED programVars

NextAge == AgeFirstCall \/ AgeSecondCall

SpecAge == InitAge /\ [][NextAge]_vars

----------------------------------------------------------------------------
(* Steps of an invocation, as seen in a pair of states                     *)

\* sendDiscordAlert is called for the event in hand (line 634)
Alerts(s) == ticks[s].pc = "getMarket" /\ ticks'[s].pc \in {"post", "delay"}

\* sendDiscordAlert returned at line 483 without posting
SkipsPost(s) == ticks[s].pc = "getMarket" /\ ticks'[s].pc = "delay"

\* lines 637-643 run for the event in hand
Marks(s) == ticks[s].pc \in {"getMarket", "post"} /\ ticks'[s].pc = "delay"

\* queryFilter is called (line 567)
IssuesQuery(s) == ticks[s].pc = "getBlockNumber" /\ ticks'[s].pc = "queryFilter"

\* getBlockNumber (line 552) or queryFilter (line 567) fails
FetchFails(s) == BlockNumberFail(s) \/ QueryFail(s)

\* a query of checkWalletAge fails
WalletQueryFails(s) ==
  TxCountFail(s) \/ WalletHeightFail(s) \/ BalanceFail(s) \/ GetBlockFail(s)

KeySet(alerted) == {alerted[i] : i \in 1..Len(alerted)}

\* the positions of an invocation inside the body of the event loop
InEvent == {"getTransactionCount", "getHeight", "getBalance", "getBlock",
            "getMarket", "post", "delay"}

\* the loop takes a new event in hand and reaches its first await with it
TakesEvent(s) ==
  /\ ticks'[s].pc \in {"getTransactionCount", "getMarket"}
  /\ ticks'[s].evs # ticks[s].evs

----------------------------------------------------------------------------
(* Properties                                                              *)

\* C1: for each alert key at most one alert is emitted: sendDiscordAlert is
\* never called for a key it has been called for before.
C1_OneAlertPerKey ==
  [][\A s \in Slots : Alerts(s) => ticks[s].key \notin emitted]_vars

\* C2: at most one invocation of processBlockchainEvents is in flight at
\* any time.
C2_OneTickInFlight == Cardinality(InFlight) <= 1

\* C3: once monitoring has started (a scan timer exists), no step decreases
\* lastProcessedBlock.
C3_CursorNeverDecreases ==
  [][scanTimers > 0 => lastProcessedBlock' >= lastProcessedBlock]_vars

\* C4: no block is scanned twice: a successful queryFilter never covers a
\* block that an earlier successful queryFilter has covered.
C4_NoBlockScannedTwice ==
  [][\A s \in Slots :
       QueryOk(s) => (ticks[s].from .. ticks[s].to) \cap scanned = {}]_vars

\* C5: every log query is issued with fromBlock = lastProcessedBlock + 1 <=
\* toBlock <= chain height and toBlock - fromBlock <= maxBlockRange.
C5_QueryRange ==
  [][\A s \in Slots :
       IssuesQuery(s) =>
         /\ ticks'[s].from = lastProcessedBlock + 1
         /\ ticks'[s].from <= ticks'[s].to
         /\ ticks'[s].to <= height
         /\ ticks'[s].to - ticks'[s].from <= maxBlockRange]_vars

\* C5, its case: a pending query of a full chunk that ends below the chain
\* height.
C5_CappedQueryPending ==
  \E s \in Slots :
    /\ ticks[s].pc = "queryFilter"
    /\ ticks[s].to = ticks[s].from + maxBlockRange - 1
    /\ ticks[s].to < height

\* C6: when getBlockNumber or queryFilter fails, lastProcessedBlock is
\* unchanged, the invocation ends without processing an event or emitting
\* an alert, the failure stays inside processBlockchainEvents, and the next
\* invocation issues its query from the fromBlock of the failed one.
C6_FailedFetchRetried ==
  [][\A s \in Slots :
       /\ FetchFails(s) =>
            /\ lastProcessedBlock' = lastProcessedBlock
            /\ ticks'[s] = Idle
            /\ emitted' = emitted
            /\ alertedTrades' = alertedTrades
            /\ main' = "running"
       /\ (IssuesQuery(s) /\ ticks[s].expect # 0) =>
            ticks'[s].from = ticks[s].expect]_vars

\* C7: in every state between two callbacks the number of keys in
\* alertedTrades is at most MAX_STORED_ALERTS.
C7_AlertedTradesBounded == Len(alertedTrades) <= MAX_STORED_ALERTS

\* C7, its case: more keys than MAX_STORED_ALERTS have been inserted.
C7_MoreKeysThanCapacity ==
  /\ Cardinality(emitted) > MAX_STORED_ALERTS
  /\ \A s \in Slots : ticks[s].pc # "post"
  /\ Len(alertedTrades) = MAX_STORED_ALERTS

\* C8: eviction is FIFO: inserting a key that is present changes nothing;
\* inserting an absent key keeps every key when the set has room, and
\* otherwise removes exactly the key inserted earliest and keeps the others
\* and the new one.
C8_FifoEviction ==
  [][\A s \in Slots :
       Marks(s) =>
         LET k == ticks[s].key
             old == alertedTrades
             new == alertedTrades'
         IN IF Has(old, k) THEN new = old
            ELSE IF Len(old) < MAX_STORED_ALERTS
                 THEN new = Append(old, k)
                 ELSE /\ KeySet(new) = (KeySet(old) \ {Head(old)}) \cup {k}
                      /\ Cardinality(KeySet(old) \ KeySet(new)) = 1
                      /\ new = Append(Tail(old), k)]_vars

\* C8, its case: a key that was inserted has been evicted, and the set is
\* full of later keys.
C8_KeyEvicted ==
  /\ Len(alertedTrades) = MAX_STORED_ALERTS
  /\ \E k \in emitted :
       /\ ~Has(alertedTrades, k)
       /\ \A s \in Slots : ticks[s].pc = "post" => ticks[s].key # k

\* C9: checkWalletAge fails open: when one of its queries fails for an
\* address without a cached record, the invocation goes on with the same
\* event as for a new wallet (isNew = true) of ageInDays = 0, and
\* walletFirstSeen is unchanged.
C9_WalletAgeFailsOpen ==
  [][\A s \in Slots :
       WalletQueryFails(s) =>
         /\ ticks'[s].pc = "getMarket"
         /\ ticks'[s].age = 0
         /\ ticks'[s].evs = ticks[s].evs
         /\ ticks'[s].key = ticks[s].key
         /\ walletFirstSeen' = walletFirstSeen]_vars

\* C9, its case: an event at the market lookup after a failed query of
\* checkWalletAge, its address still without a cached record.
C9_FailedOpenPending ==
  \E s \in Slots :
    /\ ticks[s].pc = "getMarket"
    /\ ticks[s].desc \in {"lowTxCount", "unknownAge"}
    /\ walletFirstSeen[Head(ticks[s].evs).maker] = NoTime

\* C10: the key of an event that passed every gate is in alertedTrades
\* after the notifier returns, whether the post was sent, failed or was
\* skipped for want of a webhook, and the invocation goes on to the pacing
\* delay with the same events.
C10_MarkedWhateverNotifier ==
  [][\A s \in Slots :
       (SkipsPost(s) \/ PostDone(s)) =>
         /\ Has(alertedTrades', ticks[s].key)
         /\ ticks'[s].pc = "delay"
         /\ ticks'[s].evs = ticks[s].evs]_vars

\* C10, its case: the post has returned and the key is marked.
C10_MarkedAfterPost ==
  \E s \in Slots :
    /\ ticks[s].pc = "delay"
    /\ webhook = "set"
    /\ Has(alertedTrades, ticks[s].key)

\* C11: an alert is handed to the notifier only for an event that passed
\* every gate: the event in hand was taken with an amount of at least
\* MIN_BET_AMOUNT and a key absent from alertedTrades at that moment, it
\* stays the event in hand, checkWalletAge returned isNew = true for it and
\* the market lookup returned an open market; and alertedTrades changes only
\* by the insertion of the key of an event whose notifier call has just
\* returned.
C11_AlertOnlyPastAllGates ==
  [][/\ \A s \in Slots :
          /\ TakesEvent(s) =>
               LET e == Head(ticks'[s].evs)
               IN /\ e.ok
                  /\ ~BelowMinimum(e.filled)
                  /\ ticks'[s].key = alertKey(e, now)
                  /\ ~Has(alertedTrades, ticks'[s].key)
          /\ (ticks[s].pc \in InEvent /\ ticks'[s].pc \in InEvent
                /\ ~TakesEvent(s)) =>
               /\ ticks'[s].key = ticks[s].key
               /\ ticks'[s].evs = ticks[s].evs
          /\ Alerts(s) =>
               /\ ~BelowMinimum(Head(ticks[s].evs).filled)
               /\ isNewAge(ticks[s].age)
               /\ ticks'[s].market = "open"
     /\ alertedTrades' # alertedTrades =>
          \E s \in Slots :
            /\ Marks(s)
            /\ ticks'[s].market = "open"
            /\ KeySet(alertedTrades') \ KeySet(alertedTrades) = {ticks[s].key}]_vars

\* C11, its case: an alert has been handed to the notifier and its key is
\* not yet in alertedTrades.
C11_AlertHandedOver ==
  \E s \in Slots :
    /\ ticks[s].pc = "post"
    /\ ticks[s].market = "open"
    /\ ~Has(alertedTrades, ticks[s].key)

\* C12: an event whose amount is below MIN_BET_AMOUNT is discarded at the
\* amount filter: it is never the event in hand of an invocation (so no
\* wallet-age or market query, no alert and no write of walletFirstSeen is
\* made for it), and no key of an amount bucket below the minimum is ever
\* handed to the notifier or inserted into alertedTrades.
C12_SmallEventDiscarded ==
  /\ \A s \in Slots :
       ticks[s].pc \in InEvent =>
         /\ Head(ticks[s].evs).ok
         /\ Head(ticks[s].evs).filled >= MIN_BET_AMOUNT * Pow10(USDC_DECIMALS)
         /\ ticks[s].key[2] >= (MIN_BET_AMOUNT \div AMOUNT_BUCKET) * AMOUNT_BUCKET
  /\ \A k \in emitted \cup KeySet(alertedTrades) :
       k[2] >= (MIN_BET_AMOUNT \div AMOUNT_BUCKET) * AMOUNT_BUCKET

\* C12, its case: a chunk holding an event below the minimum has been
\* fetched and the invocation has gone past that event.
C12_SmallEventPassedOver ==
  \E b \in scanned :
    /\ \E i \in 1..Len(logs[b]) :
         logs[b][i].ok /\ logs[b][i].filled < MIN_BET_AMOUNT * Pow10(USDC_DECIMALS)
    /\ \A s \in Slots : ticks[s].pc # "queryFilter"

\* C13 as stated: for a cached address, the ageInDays of two consecutive
\* calls at t and t + D differ by exactly floor(D / one day).
C13_AgeDifferenceExact ==
  (calc.fn = "age" /\ Len(calc.results) = 2) =>
    calc.results[2] - calc.results[1] = calc.D \div DAY_MS

\* C13, amended: the ageInDays of two consecutive calls at t and t + D
\* differ by floor(D / one day) or by one more, and by exactly D / one day
\* when D is a whole number of days.
C13_AgeDifferenceWithinOneDay ==
  (calc.fn = "age" /\ Len(calc.results) = 2) =>
    LET diff == calc.results[2] - calc.results[1]
    IN /\ diff \in {calc.D \div DAY_MS, calc.D \div DAY_MS + 1}
       /\ (calc.D % DAY_MS = 0 => diff = calc.D \div DAY_MS)

\* C13, its case: two calls less than a whole number of days apart, on
\* either side of the instant at which the age grows by a day.
C13_CallsAcrossDayBoundary ==
  /\ calc.fn = "age"
  /\ Len(calc.results) = 2
  /\ calc.D % DAY_MS # 0
  /\ calc.results[2] - calc.results[1] = calc.D \div DAY_MS + 1

\* C14: an invocation whose queryFilter has resolved eventually sets
\* lastProcessedBlock to its toBlock, with no event or with some; an event
\* that throws does not end the loop: the loop goes on to the first of the
\* remaining events that reaches an await (an amount not below the
\* minimum, a key not alerted, an address not cached as old), and line 652
\* is reached when there is none.
C14_FetchedChunkCompleted ==
  /\ [][\A s \in Slots :
          /\ ((QueryOk(s) \/ ticks[s].pc \in InEvent) /\ ticks'[s].pc = "idle")
               => lastProcessedBlock' = ticks[s].to
          /\ (QueryOk(s) \/ (ticks[s].pc \in InEvent /\ ticks'[s].evs # ticks[s].evs))
               => LET rest == IF ticks[s].pc = "queryFilter"
                              THEN LogsIn(logs, ticks[s].from, ticks[s].to)
                              ELSE Tail(ticks[s].evs)
                      Reaches(e) ==
                        /\ e.ok
                        /\ e.filled >= MIN_BET_AMOUNT * Pow10(USDC_DECIMALS)
                        /\ ~Has(alertedTrades', alertKey(e, now))
                        /\ \/ walletFirstSeen'[e.maker] = NoTime
                           \/ (now - walletFirstSeen'[e.maker]) \div DAY_MS <= NEW_ACCOUNT_DAYS
                      Hits == {i \in 1..Len(rest) : Reaches(rest[i])}
                  IN IF Hits = {}
                     THEN ticks'[s].pc = "idle"
                     ELSE /\ ticks'[s].pc \in InEvent
                          /\ \E i \in Hits :
                               /\ \A j \in Hits : i <= j
                               /\ ticks'[s].evs = SubSeq(rest, i, Len(rest))]_vars
  /\ \A s \in Slots : (ticks[s].pc \in InEvent) ~> (ticks[s].pc = "idle")

\* C15: once monitoring has started, every height above the start-up
\* height that the chain reaches is eventually reached by
\* lastProcessedBlock.
C15_CursorReachesEveryHeight ==
  \A h \in Blocks :
    (monitoringFrom > 0 /\ h > monitoringFrom /\ height >= h)
      ~> (lastProcessedBlock >= h)

\* C16: once monitoring has started, lastProcessedBlock is never below the
\* height recorded when it started, every pending log query has a
\* fromBlock strictly above that height, and no block at or below it has
\* been covered by a log query.
C16_CursorAboveStartupFloor ==
  monitoringFrom > 0 =>
    /\ lastProcessedBlock >= monitoringFrom
    /\ \A s \in Slots :
         ticks[s].pc = "queryFilter" => ticks[s].from > monitoringFrom
    /\ \A b \in scanned : b > monitoringFrom

\* C16, its case: the first log query after the start is pending, from the
\* block after the start-up height, while a later callback of the
\* 3-second interval has set the cursor again.
C16_FirstQueryPendingAfterRestart ==
  /\ monitoringFrom > 0
  /\ scanTimers > 1
  /\ \E s \in Slots :
       /\ ticks[s].pc = "queryFilter"
       /\ ticks[s].from = monitoringFrom + 1
       /\ lastProcessedBlock > ticks[s].to

\* C20: once monitoring has started, every height above the start-up
\* height and up to lastProcessedBlock has been covered by a successful
\* queryFilter.
C20_NoGapBelowCursor ==
  monitoringFrom > 0 =>
    \A h \in Blocks :
      (monitoringFrom < h /\ h <= lastProcessedBlock) => h \in scanned

\* C17: for an address without a cached record, a transaction count above
\* 10 makes checkWalletAge return isNew = FALSE with no query but
\* getTransactionCount ever issued; a count of 10 or less starts the
\* search (getBlockNumber, PROBES getBalance, getBlock when none rejects).
C17_EstablishedAboveTenTransactions ==
  calc.fn = "checkWalletAge" =>
    LET counted == calc.pc # "getTransactionCount" /\ calc.info # unknownAgeInfo
        TheSearch == <<"getTransactionCount", "getBlockNumber">>
                       \o [i \in 1..PROBES |-> "getBalance"] \o <<"getBlock">>
    IN /\ (counted /\ calc.txCount > TX_COUNT_THRESHOLD) =>
            /\ calc.pc = "returned"
            /\ ~calc.info.isNew
            /\ calc.queries = <<"getTransactionCount">>
            /\ calc.cached = NoBlock
       /\ (counted /\ calc.txCount <= TX_COUNT_THRESHOLD) =>
            /\ Len(calc.queries) > 1
            /\ calc.queries = SubSeq(TheSearch, 1, Len(calc.queries))
            /\ calc.info # lowTxCountInfo /\ calc.pc = "returned"
                 => calc.queries = TheSearch

\* C17, its case: a count of 11 has been returned by getTransactionCount
\* and checkWalletAge has returned the verdict of an established wallet.
C17_ElevenTransactionsReturned ==
  /\ calc.fn = "checkWalletAge"
  /\ calc.txCount = TX_COUNT_THRESHOLD + 1
  /\ calc.pc = "returned"
  /\ calc.info = establishedInfo

\* C18: the search makes exactly 5 probes, each at the midpoint of the
\* interval from currentBlock - window to its upper end, and every probe
\* after the first examines a strictly smaller interval than the probe
\* before it.
C18_EveryProbeShrinksInterval ==
  calc.fn = "checkWalletAge" =>
    LET lower == calc.currentBlock - Min(LOOKBACK_BLOCKS, calc.currentBlock)
    IN /\ Len(calc.probes) <= PROBES
       /\ calc.pc = "getBlock" => Len(calc.probes) = PROBES
       /\ \A i \in 1..Len(calc.probes) :
            calc.probes[i].mid = (lower + calc.probes[i].upper) \div 2
       /\ \A i \in 2..Len(calc.probes) :
            calc.probes[i].upper - lower < calc.probes[i - 1].upper - lower

\* C19: the block whose timestamp is cached lies in the searched window,
\* it is currentBlock or a block at which a probe found a nonzero balance,
\* and when the balance is zero before a block B and nonzero from B on it
\* is not earlier than B.
C19_CachedBlockWithinWindow ==
  (calc.fn = "checkWalletAge" /\ calc.cached # NoBlock) =>
    /\ calc.currentBlock - Min(LOOKBACK_BLOCKS, calc.currentBlock) <= calc.cached
    /\ calc.cached <= calc.currentBlock
    /\ \/ calc.cached = calc.currentBlock
       \/ \E i \in 1..Len(calc.probes) :
            calc.probes[i].mid = calc.cached /\ Funded(calc.cached)
    /\ (calc.funded.from <= calc.currentBlock /\ calc.funded.upto >= calc.currentBlock)
         => calc.cached >= calc.funded.from

\* C19, its case: the balance became nonzero at a block of the window and
\* stayed so; the block cached is a later one at which a probe found it
\* nonzero.
C19_CachedLaterThanFirstFunded ==
  /\ calc.fn = "checkWalletAge"
  /\ calc.cached # NoBlock
  /\ calc.funded.upto >= calc.currentBlock
  /\ calc.funded.from > calc.currentBlock - Min(LOOKBACK_BLOCKS, calc.currentBlock)
  /\ calc.cached > calc.funded.from
  /\ calc.cached < calc.currentBlock

\* C21: the wallet cache is write-once per address: once walletFirstSeen
\* holds a first-seen timestamp for an address, no step changes or removes
\* that entry.
C21_WalletCacheWriteOnce ==
  [][\A m \in Makers :
       walletFirstSeen[m] # NoTime => walletFirstSeen'[m] = walletFirstSeen[m]]_vars

\* C22: monitoring is started at most once: lines 695-702 (the cursor is
\* set, the first scan is run, the scan timer is created) are never
\* executed when a scan timer already exists, so that at most one exists.
C22_MonitoringStartedOnce ==
  /\ [][WaitOkStart => scanTimers = 0]_vars
  /\ [](scanTimers <= 1)

====
